---- MODULE Spec2Model ----
(***************************************************************************)
(* A model of the VITALITE agent-issues portal (src/app.py): the SQLite    *)
(* case and user tables, the per-browser Streamlit session state, and one  *)
(* action per interaction (a widget event followed by the script run that  *)
(* handles it, reruns included).                                          *)
(*                                                                         *)
(* Conventions.                                                            *)
(*  - Python's Optional[T] is a sequence: None is <<>>, a value x is <<x>>.*)
(*  - A table is the sequence of its rows in rowid order.                  *)
(*  - A timestamp string "%Y-%m-%d %H:%M:%S" is the number of whole        *)
(*    seconds it denotes; the clock `now` counts half seconds, so          *)
(*    formatting drops the sub-second part as strftime does.               *)
(*  - uuid4 is modelled as a fresh number: two generated case ids never    *)
(*    coincide (the 8-hex-digit prefix makes a collision possible but      *)
(*    negligible; the code does not check for one).                        *)
(***************************************************************************)
EXTENDS Integers, Sequences, FiniteSets, TLC

VARIABLES
    users_table,        \* table users: rows (username, password, role, region, active)
    cases_table,        \* table cases: rows (case_id, case_data)
    now,                \* wall clock, in half seconds
    uuids,              \* number of case ids generated so far
    started,            \* started[s]: session s has run initialize_session_state
    logged_in,          \* st.session_state.logged_in, per session
    user,               \* st.session_state.user, per session
    current_page,       \* st.session_state.current_page, per session
    current_case,       \* st.session_state.current_case, per session
    case_filter,        \* st.session_state.case_filter, per session
    new_case_submitted, \* st.session_state.new_case_submitted, per session
    ss_users,           \* st.session_state.users (the cached user list), per session
    editing_user,       \* st.session_state.editing_user, per session
    notice,             \* what the last script run reported (st.error/success/warning/info)
    closed_or_escalated,\* history: case ids on which Close or Escalate was applied
    created_with_notes  \* history: case ids created with resolution notes

vars == <<users_table, cases_table, now, uuids, started, logged_in, user,
          current_page, current_case, case_filter, new_case_submitted,
          ss_users, editing_user, notice, closed_or_escalated, created_with_notes>>

store_vars == <<users_table, cases_table>>

session_vars == <<started, logged_in, user, current_page, current_case, case_filter,
                  new_case_submitted, ss_users, editing_user>>

history_vars == <<closed_or_escalated, created_with_notes>>

-----------------------------------------------------------------------------
(* Bounds of the model *)

MaxTime == 2          \* the clock stops advancing at this many half seconds
MaxCases == 2         \* case ids generated in a behaviour of Spec
MaxStoreIds == 4      \* case ids used by the store-level specification

Sessions == {"s1", "s2"}

-----------------------------------------------------------------------------
(* Optional values and Python truthiness *)

None == <<>>

Some(x) == <<x>>

\* bool(x) for x an Optional[str]: None and "" are falsy
Truthy(opt) == opt # None /\ opt[1] # ""

\* Python's `a or b` on Optional[str] operands
PyOr(a, b) == IF Truthy(a) THEN a ELSE b

SeqToSet(s) == {s[i] : i \in 1..Len(s)}

-----------------------------------------------------------------------------
(* Constants of the program *)

CHANNELS == <<"WhatsApp", "Voice Call", "Email">>

ROLES == <<"Agent", "Sales and Service Assistant", "Agent Team Leader",
           "Regional Manager", "Assistant Regional Manager">>

REGIONS == <<"Lusaka", "Western", "North-Western", "Northern", "Southern",
             "Central", "Luapula", "Eastern", "Copperbelt", "Muchinga">>

ISSUE_TYPES == <<"Commissions", "Tokens", "Registration Failure", "Float", "Stock",
                 "Edit own account request", "Edit customer request",
                 "Reporting New Fault", "Follow up on previously reported fault",
                 "Balance inquiry", "Campaign related", "Call back request",
                 "Call was dropped", "Customer feedback">>

USER_ROLES == <<"Admin", "Manager", "Agent">>

DefaultAdmin == [username |-> "admin", password |-> "admin123", role |-> "Admin",
                 region |-> "All", active |-> TRUE]

-----------------------------------------------------------------------------
(* Time *)

\* datetime.strftime("%Y-%m-%d %H:%M:%S"): whole seconds, sub-second part dropped
strftime(t) == t \div 2

-----------------------------------------------------------------------------
(* JSON: json.dumps writes a dict as an object, a mapping from member name  *)
(* to encoded value, with None as null, a str as a string and a list as an  *)
(* array; json.loads reads the document back into a dict.                   *)

JNull == <<"null">>

JString(s) == <<"string", s>>

JNumber(n) == <<"number", n>>

\* an Optional[str] and an Optional timestamp: None is written as null
JOptString(opt) == IF opt = None THEN JNull ELSE JString(opt[1])

JOptNumber(opt) == IF opt = None THEN JNull ELSE JNumber(opt[1])

\* a list of str
JStrings(seq) == <<"array", [i \in 1..Len(seq) |-> JString(seq[i])]>>

JObject(members) == <<"object", members>>

dumps_resolution(r) ==
    JObject([notes |-> JString(r.notes),
             action_taken |-> JString(r.action_taken),
             timestamp |-> JNumber(r.timestamp)])

json_dumps(case) ==
    JObject([
        case_id |-> JNumber(case.case_id),
        channel |-> JString(case.channel),
        timestamps |-> JObject([
            received |-> JOptNumber(case.timestamps.received),
            logged |-> JNumber(case.timestamps.logged),
            resolved |-> JOptNumber(case.timestamps.resolved)]),
        reporter |-> JObject([
            name |-> JString(case.reporter.name),
            role |-> JString(case.reporter.role),
            agent_number |-> JOptString(case.reporter.agent_number),
            contact |-> JOptString(case.reporter.contact)]),
        region |-> JString(case.region),
        issue |-> JObject([
            type |-> JString(case.issue.type),
            description |-> JString(case.issue.description),
            attachments |-> JStrings(case.issue.attachments)]),
        status |-> JString(case.status),
        resolution |-> IF case.resolution = None THEN JNull
                       ELSE dumps_resolution(case.resolution[1]),
        handled_by |-> JString(case.handled_by)])

\* the value of member `key` of a JSON object
JMember(obj, key) == obj[2][key]

\* a JSON string or number read back
JValue(j) == j[2]

\* null is read back as None
JOptValue(j) == IF j = JNull THEN None ELSE Some(JValue(j))

JList(j) == [i \in 1..Len(j[2]) |-> JValue(j[2][i])]

loads_resolution(j) ==
    [notes |-> JValue(JMember(j, "notes")),
     action_taken |-> JValue(JMember(j, "action_taken")),
     timestamp |-> JValue(JMember(j, "timestamp"))]

json_loads(doc) ==
    LET ts == JMember(doc, "timestamps")
        rep == JMember(doc, "reporter")
        iss == JMember(doc, "issue")
    IN  [case_id |-> JValue(JMember(doc, "case_id")),
         channel |-> JValue(JMember(doc, "channel")),
         timestamps |-> [received |-> JOptValue(JMember(ts, "received")),
                         logged |-> JValue(JMember(ts, "logged")),
                         resolved |-> JOptValue(JMember(ts, "resolved"))],
         reporter |-> [name |-> JValue(JMember(rep, "name")),
                       role |-> JValue(JMember(rep, "role")),
                       agent_number |-> JOptValue(JMember(rep, "agent_number")),
                       contact |-> JOptValue(JMember(rep, "contact"))],
         region |-> JValue(JMember(doc, "region")),
         issue |-> [type |-> JValue(JMember(iss, "type")),
                    description |-> JValue(JMember(iss, "description")),
                    attachments |-> JList(JMember(iss, "attachments"))],
         status |-> JValue(JMember(doc, "status")),
         resolution |-> IF JMember(doc, "resolution") = JNull THEN None
                        ELSE Some(loads_resolution(JMember(doc, "resolution"))),
         handled_by |-> JValue(JMember(doc, "handled_by"))]

-----------------------------------------------------------------------------
(* The case table: save_case, get_all_cases, delete_case *)

\* INSERT OR REPLACE INTO cases VALUES (case_id, json): the row holding the key
\* is deleted, the new row is appended
save_case_plain_insert(rows, case) ==
    Append(rows, [case_id |-> case.case_id, case_data |-> json_dumps(case)])

\* INSERT OR IGNORE: a row holding the key is kept, the first write wins
save_case_insert_or_ignore(rows, case) ==
    IF \E i \in 1..Len(rows) : rows[i].case_id = case.case_id
    THEN rows
    ELSE Append(rows, [case_id |-> case.case_id, case_data |-> json_dumps(case)])

save_case(rows, case) ==
    LET Other(r) == r.case_id # case.case_id
    IN  Append(SelectSeq(rows, Other),
               [case_id |-> case.case_id, case_data |-> json_dumps(case)])

\* SELECT case_data FROM cases, each row json.loads-ed
get_all_cases(rows) == [i \in 1..Len(rows) |-> json_loads(rows[i].case_data)]

\* DELETE FROM cases WHERE case_id = ?: no row matching is no error
delete_case_first_row(rows, case_id) ==
    [rows |-> IF rows = <<>> THEN rows ELSE Tail(rows), error |-> FALSE]

delete_case(rows, case_id) ==
    LET Other(r) == r.case_id # case_id
    IN  [rows |-> SelectSeq(rows, Other), error |-> FALSE]

-----------------------------------------------------------------------------
(* The user table: init_db, save_user, get_all_users, delete_user.          *)
(* Column active is BOOLEAN: SQLite stores True as 1 and False as 0, and     *)
(* get_all_users reads it back with bool().                                  *)

sql_bool(b) == IF b THEN 1 ELSE 0

py_bool(n) == n # 0

user_row(u) == [username |-> u.username, password |-> u.password, role |-> u.role,
                region |-> u.region, active |-> sql_bool(u.active)]

\* INSERT OR IGNORE INTO users VALUES ("admin", "admin123", "Admin", "All", True)
init_db(rows) ==
    IF \E i \in 1..Len(rows) : rows[i].username = DefaultAdmin.username
    THEN rows
    ELSE Append(rows, user_row(DefaultAdmin))

\* INSERT OR REPLACE INTO users VALUES (...)
save_user(rows, u) ==
    LET Other(r) == r.username # u.username
    IN  Append(SelectSeq(rows, Other), user_row(u))

get_all_users(rows) ==
    [i \in 1..Len(rows) |->
        [username |-> rows[i].username, password |-> rows[i].password,
         role |-> rows[i].role, region |-> rows[i].region,
         active |-> py_bool(rows[i].active)]]

\* DELETE FROM users WHERE username = ?
delete_user(rows, username) ==
    LET Other(r) == r.username # username
    IN  SelectSeq(rows, Other)

-----------------------------------------------------------------------------
(* filter_cases and the dashboard's KPI cards *)

FILTERS == <<"All", "Open", "Closed">>

filter_cases_exact_status(rows, filter) ==
    LET cases == get_all_cases(rows)
        Exact(c) == c.status = filter
    IN  IF filter = "All" THEN cases ELSE SelectSeq(cases, Exact)

filter_cases(rows, filter) ==
    LET cases == get_all_cases(rows)
        OpenOrEscalated(c) == c.status \in {"Open", "Escalated"}
        Exact(c) == c.status = filter
    IN  IF cases = <<>> THEN <<>>
        ELSE IF filter = "All" THEN cases
        ELSE IF filter = "Open" THEN SelectSeq(cases, OpenOrEscalated)
        ELSE SelectSeq(cases, Exact)

\* f"{num / den * 100:.1f}": the quotient rounded to the nearest tenth, given in
\* tenths (750 is "75.0").  For den < 16 no quotient lies on a rounding tie, so
\* the float's rounding error cannot change the digit printed.
format_1f_percent(num, den) == (2 * 1000 * num + den) \div (2 * den)

dashboard_counts_escalated_closed(rows) ==
    LET cases == get_all_cases(rows)
        IsClosed(c) == c.status \in {"Closed", "Escalated"}
        closed_cases == Len(SelectSeq(cases, IsClosed))
    IN  IF cases = <<>>
        THEN [info |-> "No cases logged yet", metrics |-> None]
        ELSE [info |-> "",
              metrics |-> Some([total_cases |-> Len(cases),
                                open_cases |-> Len(cases) - closed_cases,
                                resolution_rate |->
                                    format_1f_percent(closed_cases, Len(cases))])]

\* what dashboard() puts in the three KPI cards, or the notice shown instead
dashboard(rows) ==
    LET cases == get_all_cases(rows)
        IsOpen(c) == c.status \in {"Open", "Escalated"}
        IsClosed(c) == c.status = "Closed"
        open_cases == Len(SelectSeq(cases, IsOpen))
        closed_cases == Len(SelectSeq(cases, IsClosed))
    IN  IF cases = <<>>
        THEN [info |-> "No cases logged yet", metrics |-> None]
        ELSE [info |-> "",
              metrics |-> Some([total_cases |-> Len(cases),
                                open_cases |-> open_cases,
                                resolution_rate |->
                                    format_1f_percent(closed_cases, Len(cases))])]

-----------------------------------------------------------------------------
(* display_case_details: the case card and the WhatsApp response time.  A    *)
(* stored timestamp that is not of the form "%Y-%m-%d %H:%M:%S" is modelled  *)
(* as a negative number of seconds; strptime raises ValueError on it.        *)

\* datetime.strptime(ts, "%Y-%m-%d %H:%M:%S"): None stands for ValueError
strptime(ts) == IF ts < 0 THEN None ELSE Some(ts)

\* f"{seconds / 60:.1f}": minutes rounded to the nearest tenth, given in tenths
\* (150 is "15.0").  The differences used are multiples of 6 seconds, so no
\* quotient lies on a rounding tie.
format_1f_minutes(seconds) == (2 * seconds + 6) \div 12

\* what the card shows of a case
case_card(case) ==
    [case_id |-> case.case_id, status |-> case.status,
     reporter |-> <<case.reporter.name, case.reporter.role>>,
     contact |-> case.reporter.contact, region |-> case.region,
     issue_type |-> case.issue.type, description |-> case.issue.description,
     logged_by |-> <<case.handled_by, case.timestamps.logged>>]

\* the response time shown as 0.0 where the code shows none
display_case_details_zero_metric(case) ==
    [card |-> Some(case_card(case)),
     metric |-> IF /\ case.channel = "WhatsApp" /\ case.timestamps.received # None
                   /\ strptime(case.timestamps.received[1]) # None
                   /\ strptime(case.timestamps.logged) # None
                THEN Some(format_1f_minutes(case.timestamps.logged
                                            - case.timestamps.received[1]))
                ELSE Some(0),
     error |-> ""]

\* the card, the st.metric "WhatsApp Response Time" if any, the st.error if any
display_case_details(case) ==
    [card |-> Some(case_card(case)),
     metric |-> IF case.channel = "WhatsApp" /\ case.timestamps.received # None
                THEN LET received == strptime(case.timestamps.received[1])
                         logged == strptime(case.timestamps.logged)
                     IN  IF received = None \/ logged = None
                         THEN None
                         ELSE Some(format_1f_minutes(logged[1] - received[1]))
                ELSE None,
     error |-> ""]

-----------------------------------------------------------------------------
(* The initial state: the module has been imported (init_db has created the  *)
(* tables and the default admin), no browser session has connected yet.      *)

Init ==
    /\ users_table = init_db(<<>>)
    /\ cases_table = <<>>
    /\ now = 0
    /\ uuids = 0
    /\ started = [s \in Sessions |-> FALSE]
    /\ logged_in = [s \in Sessions |-> FALSE]
    /\ user = [s \in Sessions |-> None]
    /\ current_page = [s \in Sessions |-> Some("dashboard")]
    /\ current_case = [s \in Sessions |-> None]
    /\ case_filter = [s \in Sessions |-> "All"]
    /\ new_case_submitted = [s \in Sessions |-> FALSE]
    /\ ss_users = [s \in Sessions |-> <<>>]
    /\ editing_user = [s \in Sessions |-> None]
    /\ notice = ""
    /\ closed_or_escalated = {}
    /\ created_with_notes = {}

-----------------------------------------------------------------------------
(* What st.error / st.success / st.warning report *)

MsgLoginOk == "Login successful!"
MsgLoginBad == "Invalid credentials or inactive account"
MsgLoginEmpty == "Please enter both username and password"
MsgNotesRequired == "Please provide resolution notes"
MsgClosed == "Case has been closed successfully!"
MsgEscalated == "Case has been escalated (marked as Open) successfully!"
MsgCaseDeleted == "Case deleted successfully!"
MsgRequired == "Please fill all required fields (*)"
MsgAgentNumber == "Agent number is required for Agent role"
MsgPhone == "Phone number is required for this channel"
MsgEmail == "Email address is required for email cases"
MsgUserAdded == "User added successfully!"
MsgUserExists == "Username already exists"
MsgUserFields == "Please fill all fields"
MsgUserDeleted == "User deleted successfully!"
MsgUserUpdated == "User updated successfully!"
MsgPasswordMismatch == "Passwords don't match"
MsgNoPermission == "You don't have permission to access this page"

-----------------------------------------------------------------------------
(* A script run.  Streamlit executes app.py from the top for every widget   *)
(* event and for every st.rerun(): the module-level init_db() runs first,   *)
(* then initialize_session_state fills the keys the session lacks.          *)

\* the page main() dispatches to
View(s) ==
    IF current_case[s] # None THEN "resolve"
    ELSE IF current_page[s] = Some("dashboard") THEN "dashboard"
    ELSE IF current_page[s] = Some("user_management") THEN "user_management"
    ELSE IF current_page[s] = Some("edit_user") THEN "edit_user"
    ELSE "new_case"

\* a browser connects: the first run of a session
StartSession(s) ==
    /\ ~started[s]
    /\ started' = [started EXCEPT ![s] = TRUE]
    /\ users_table' = init_db(users_table)
    /\ ss_users' = [ss_users EXCEPT ![s] = get_all_users(init_db(users_table))]
    /\ notice' = ""
    /\ UNCHANGED <<cases_table, now, uuids, logged_in, user, current_page,
                   current_case, case_filter, new_case_submitted, editing_user,
                   history_vars>>

\* time passes
Tick ==
    /\ now < MaxTime
    /\ now' = now + 1
    /\ UNCHANGED <<store_vars, uuids, session_vars, notice, history_vars>>

-----------------------------------------------------------------------------
(* login_page *)

\* next((u for u in get_all_users() if ...), None)
find_user_ignoring_active(rows, username, password) ==
    LET users == get_all_users(rows)
        hits == {i \in 1..Len(users) :
                    users[i].username = username /\ users[i].password = password}
    IN  IF hits = {} THEN None
        ELSE Some(users[CHOOSE i \in hits : \A j \in hits : i <= j])

find_user(rows, username, password) ==
    LET users == get_all_users(rows)
        hits == {i \in 1..Len(users) :
                    /\ users[i].username = username
                    /\ users[i].password = password
                    /\ users[i].active}
    IN  IF hits = {} THEN None
        ELSE Some(users[CHOOSE i \in hits : \A j \in hits : i <= j])

Login(s, username, password) ==
    /\ started[s] /\ ~logged_in[s]
    /\ users_table' = init_db(users_table)
    /\ IF username # "" /\ password # ""
       THEN LET found == find_user(init_db(users_table), username, password)
            IN  IF found # None
                THEN /\ logged_in' = [logged_in EXCEPT ![s] = TRUE]
                     /\ user' = [user EXCEPT ![s] = found]
                     /\ current_page' = [current_page EXCEPT ![s] = Some("dashboard")]
                     /\ notice' = MsgLoginOk
                ELSE /\ notice' = MsgLoginBad
                     /\ UNCHANGED <<logged_in, user, current_page>>
       ELSE /\ notice' = MsgLoginEmpty
            /\ UNCHANGED <<logged_in, user, current_page>>
    /\ UNCHANGED <<cases_table, now, uuids, started, current_case, case_filter,
                   new_case_submitted, ss_users, editing_user, history_vars>>

-----------------------------------------------------------------------------
(* main: the sidebar *)

\* the sidebar with the User Management button shown to every role, and a
\* button for the edit page
nav_options_every_page(s) == {"dashboard", "new_case", "user_management", "edit_user"}

nav_options(s) ==
    {"dashboard", "new_case"}
        \cup (IF user[s][1].role = "Admin" THEN {"user_management"} ELSE {})

Navigate(s, page) ==
    /\ started[s] /\ logged_in[s]
    /\ page \in nav_options(s)
    /\ users_table' = init_db(users_table)
    /\ current_page' = [current_page EXCEPT ![s] = Some(page)]
    /\ current_case' = [current_case EXCEPT ![s] = None]
    /\ notice' = IF page = "user_management" /\ user[s][1].role # "Admin"
                 THEN MsgNoPermission ELSE ""
    /\ UNCHANGED <<cases_table, now, uuids, started, logged_in, user, case_filter,
                   new_case_submitted, ss_users, editing_user, history_vars>>

Logout(s) ==
    /\ started[s] /\ logged_in[s]
    /\ users_table' = init_db(users_table)
    /\ logged_in' = [logged_in EXCEPT ![s] = FALSE]
    /\ current_case' = [current_case EXCEPT ![s] = None]
    /\ current_page' = [current_page EXCEPT ![s] = None]
    /\ notice' = ""
    /\ UNCHANGED <<cases_table, now, uuids, started, user, case_filter,
                   new_case_submitted, ss_users, editing_user, history_vars>>

-----------------------------------------------------------------------------
(* resolve_case *)

ResolveActions == {"close", "escalate"}

\* the case as resolve_case rewrites it in place before saving it
resolved_keeps_status(case, notes, action, t) ==
    [case EXCEPT
        !.resolution = Some([notes |-> notes,
                             action_taken |-> IF action = "close"
                                              THEN "Closed by agent"
                                              ELSE "Escalated to senior support",
                             timestamp |-> strftime(t)])]

resolved_drops_resolution(case, notes, action, t) ==
    [case EXCEPT !.status = IF action = "close" THEN "Closed" ELSE "Open"]

resolved_escalated_status(case, notes, action, t) ==
    [case EXCEPT
        !.status = IF action = "close" THEN "Closed" ELSE "Escalated",
        !.resolution = Some([notes |-> notes,
                             action_taken |-> IF action = "close"
                                              THEN "Closed by agent"
                                              ELSE "Escalated to senior support",
                             timestamp |-> strftime(t)])]

\* the rewrite with the resolution time also written to timestamps.resolved
resolved_stamps_resolved(case, notes, action, t) ==
    [case EXCEPT
        !.status = IF action = "close" THEN "Closed" ELSE "Open",
        !.timestamps.resolved = Some(strftime(t)),
        !.resolution = Some([notes |-> notes,
                             action_taken |-> IF action = "close"
                                              THEN "Closed by agent"
                                              ELSE "Escalated to senior support",
                             timestamp |-> strftime(t)])]

resolved(case, notes, action, t) ==
    [case EXCEPT
        !.status = IF action = "close" THEN "Closed" ELSE "Open",
        !.resolution = Some([notes |-> notes,
                             action_taken |-> IF action = "close"
                                              THEN "Closed by agent"
                                              ELSE "Escalated to senior support",
                             timestamp |-> strftime(t)])]

\* `if not resolution_notes`
notes_missing_never(notes) == FALSE

notes_missing(notes) == notes = ""

\* the Close Case or Escalate button of the resolution form
ResolveSubmit(s, notes, action) ==
    /\ started[s] /\ logged_in[s]
    /\ View(s) = "resolve"
    /\ IF notes_missing(notes)
       THEN /\ notice' = MsgNotesRequired
            /\ UNCHANGED <<cases_table, current_case, closed_or_escalated>>
       ELSE LET case == resolved(current_case[s][1], notes, action, now)
            IN  /\ notice' = IF action = "close" THEN MsgClosed ELSE MsgEscalated
                /\ current_case' = [current_case EXCEPT ![s] = None]
                /\ closed_or_escalated' = closed_or_escalated \cup {case.case_id}
                /\ cases_table' = save_case(cases_table, case)
    /\ users_table' = init_db(users_table)
    /\ UNCHANGED <<now, uuids, started, logged_in, user, current_page, case_filter,
                   new_case_submitted, ss_users, editing_user, created_with_notes>>

-----------------------------------------------------------------------------
(* dashboard and display_case_list.  dashboard() returns before the case    *)
(* list when the table is empty; a button acts in the run that follows the  *)
(* click, on the list that run fetches.                                     *)

listed(s) == filter_cases(cases_table, case_filter[s])

SetFilter(s, f) ==
    /\ started[s] /\ logged_in[s]
    /\ View(s) = "dashboard"
    /\ cases_table # <<>>
    /\ users_table' = init_db(users_table)
    /\ case_filter' = [case_filter EXCEPT ![s] = f]
    /\ notice' = ""
    /\ UNCHANGED <<cases_table, now, uuids, started, logged_in, user, current_page,
                   current_case, new_case_submitted, ss_users, editing_user,
                   history_vars>>

ViewResolve(s, i) ==
    /\ started[s] /\ logged_in[s]
    /\ View(s) = "dashboard"
    /\ i \in 1..Len(listed(s))
    /\ users_table' = init_db(users_table)
    /\ current_case' = [current_case EXCEPT ![s] = Some(listed(s)[i])]
    /\ notice' = ""
    /\ UNCHANGED <<cases_table, now, uuids, started, logged_in, user, current_page,
                   case_filter, new_case_submitted, ss_users, editing_user,
                   history_vars>>

DeleteCase(s, i) ==
    /\ started[s] /\ logged_in[s]
    /\ View(s) = "dashboard"
    /\ i \in 1..Len(listed(s))
    /\ users_table' = init_db(users_table)
    /\ cases_table' = delete_case(cases_table, listed(s)[i].case_id).rows
    /\ notice' = MsgCaseDeleted
    /\ UNCHANGED <<now, uuids, session_vars, history_vars>>

-----------------------------------------------------------------------------
(* user_management and edit_user *)

AddUser(s, new_username, new_password, new_role, new_region) ==
    /\ started[s] /\ logged_in[s]
    /\ View(s) = "user_management"
    /\ user[s][1].role = "Admin"
    /\ IF new_username # "" /\ new_password # ""
       THEN IF \E u \in SeqToSet(get_all_users(init_db(users_table))) :
                    u.username = new_username
            THEN /\ notice' = MsgUserExists
                 /\ users_table' = init_db(users_table)
                 /\ UNCHANGED ss_users
            ELSE LET new_user == [username |-> new_username,
                                  password |-> new_password,
                                  role |-> new_role, region |-> new_region,
                                  active |-> TRUE]
                     saved == save_user(init_db(users_table), new_user)
                 IN  /\ ss_users' = [ss_users EXCEPT ![s] = get_all_users(saved)]
                     /\ users_table' = init_db(saved)
                     /\ notice' = MsgUserAdded
       ELSE /\ notice' = MsgUserFields
            /\ users_table' = init_db(users_table)
            /\ UNCHANGED ss_users
    /\ UNCHANGED <<cases_table, now, uuids, started, logged_in, user, current_page,
                   current_case, case_filter, new_case_submitted, editing_user,
                   history_vars>>

\* the Edit button beside the i-th user of the cached list
EditClick(s, i) ==
    /\ started[s] /\ logged_in[s]
    /\ View(s) = "user_management"
    /\ user[s][1].role = "Admin"
    /\ i \in 1..Len(ss_users[s])
    /\ users_table' = init_db(users_table)
    /\ editing_user' = [editing_user EXCEPT ![s] = Some(ss_users[s][i])]
    /\ current_page' = [current_page EXCEPT ![s] = Some("edit_user")]
    /\ notice' = ""
    /\ UNCHANGED <<cases_table, now, uuids, started, logged_in, user, current_case,
                   case_filter, new_case_submitted, ss_users, history_vars>>

\* the Delete button beside the i-th user of the cached list; the rerun that
\* follows imports the module again, and init_db restores a missing admin
DeleteUserClick(s, i) ==
    /\ started[s] /\ logged_in[s]
    /\ View(s) = "user_management"
    /\ user[s][1].role = "Admin"
    /\ i \in 1..Len(ss_users[s])
    /\ LET deleted == delete_user(init_db(users_table), ss_users[s][i].username)
       IN  /\ ss_users' = [ss_users EXCEPT ![s] = get_all_users(deleted)]
           /\ users_table' = init_db(deleted)
    /\ notice' = MsgUserDeleted
    /\ UNCHANGED <<cases_table, now, uuids, started, logged_in, user, current_page,
                   current_case, case_filter, new_case_submitted, editing_user,
                   history_vars>>

EditSave(s, new_password, confirm_password, new_role, new_region, active) ==
    /\ started[s] /\ logged_in[s]
    /\ View(s) = "edit_user"
    /\ editing_user[s] # None
    /\ IF new_password = confirm_password
       THEN LET updated_user == [username |-> editing_user[s][1].username,
                                 password |-> new_password,
                                 role |-> new_role, region |-> new_region,
                                 active |-> active]
                saved == save_user(init_db(users_table), updated_user)
            IN  /\ ss_users' = [ss_users EXCEPT ![s] = get_all_users(saved)]
                /\ users_table' = init_db(saved)
                /\ current_page' = [current_page EXCEPT ![s] = Some("user_management")]
                /\ notice' = MsgUserUpdated
       ELSE /\ notice' = MsgPasswordMismatch
            /\ users_table' = init_db(users_table)
            /\ UNCHANGED <<ss_users, current_page>>
    /\ UNCHANGED <<cases_table, now, uuids, started, logged_in, user, current_case,
                   case_filter, new_case_submitted, editing_user, history_vars>>

EditCancel(s) ==
    /\ started[s] /\ logged_in[s]
    /\ View(s) = "edit_user"
    /\ editing_user[s] # None
    /\ users_table' = init_db(users_table)
    /\ current_page' = [current_page EXCEPT ![s] = Some("user_management")]
    /\ notice' = ""
    /\ UNCHANGED <<cases_table, now, uuids, started, logged_in, user, current_case,
                   case_filter, new_case_submitted, ss_users, editing_user,
                   history_vars>>

-----------------------------------------------------------------------------
(* new_case_form, validate_case_form, create_new_case *)

\* the widget values of the case form (str for a text input, the message time
\* in whole seconds, the uploaded file names)
RawForm(channel, name, role, agent_num, phone, email, received, description, notes, files) ==
    [channel |-> channel, name |-> name, role |-> role, agent_num |-> agent_num,
     phone |-> phone, email |-> email, received |-> received,
     region |-> REGIONS[1], issue_type |-> ISSUE_TYPES[1],
     description |-> description, resolution_notes |-> notes,
     attachments |-> files]

\* st.session_state.form_data with every widget's value kept, rendered or not
form_data_keeps_every_widget(raw) ==
    [channel |-> raw.channel, name |-> raw.name, role |-> raw.role,
     agent_num |-> Some(raw.agent_num), phone |-> Some(raw.phone),
     email |-> Some(raw.email), received_time |-> Some(raw.received),
     region |-> raw.region, issue_type |-> raw.issue_type,
     description |-> raw.description, resolution_notes |-> raw.resolution_notes,
     attachments |-> raw.attachments]

\* st.session_state.form_data: the widgets that were not rendered give None
form_data(raw) ==
    [channel |-> raw.channel,
     name |-> raw.name,
     role |-> raw.role,
     agent_num |-> IF raw.role = "Agent" THEN Some(raw.agent_num) ELSE None,
     phone |-> IF raw.channel \in {"WhatsApp", "Voice Call"}
               THEN Some(raw.phone) ELSE None,
     email |-> IF raw.channel = "Email" THEN Some(raw.email) ELSE None,
     received_time |-> IF raw.channel = "WhatsApp" THEN Some(raw.received) ELSE None,
     region |-> raw.region,
     issue_type |-> raw.issue_type,
     description |-> raw.description,
     resolution_notes |-> raw.resolution_notes,
     attachments |-> IF raw.channel \in {"WhatsApp", "Email"}
                     THEN raw.attachments ELSE <<>>]

validate_case_form(name, role, region, issue_type, description) ==
    /\ name # "" /\ role # "" /\ region # "" /\ issue_type # "" /\ description # ""

\* the submit handler without its checks of the phone and the email
form_error_required_only(fd) ==
    IF ~validate_case_form(fd.name, fd.role, fd.region, fd.issue_type, fd.description)
    THEN MsgRequired
    ELSE IF fd.role = "Agent" /\ ~Truthy(fd.agent_num) THEN MsgAgentNumber
    ELSE ""

\* the message of the first check of the submit handler that fails, or ""
form_error(fd) ==
    IF ~validate_case_form(fd.name, fd.role, fd.region, fd.issue_type, fd.description)
    THEN MsgRequired
    ELSE IF fd.role = "Agent" /\ ~Truthy(fd.agent_num) THEN MsgAgentNumber
    ELSE IF fd.channel \in {"WhatsApp", "Voice Call"} /\ ~Truthy(fd.phone) THEN MsgPhone
    ELSE IF fd.channel = "Email" /\ ~Truthy(fd.email) THEN MsgEmail
    ELSE ""

\* a case that names the default admin as its handler, whoever submits
create_new_case_handled_by_admin(fd, case_id, t, username) ==
    [case_id |-> case_id,
     channel |-> fd.channel,
     timestamps |-> [received |-> fd.received_time, logged |-> strftime(t),
                     resolved |-> None],
     reporter |-> [name |-> fd.name, role |-> fd.role, agent_number |-> fd.agent_num,
                   contact |-> PyOr(fd.phone, fd.email)],
     region |-> fd.region,
     issue |-> [type |-> fd.issue_type, description |-> fd.description,
                attachments |-> fd.attachments],
     status |-> "Open",
     resolution |-> IF fd.resolution_notes # ""
                    THEN Some([notes |-> fd.resolution_notes,
                               action_taken |-> "Initial notes",
                               timestamp |-> strftime(t)])
                    ELSE None,
     handled_by |-> DefaultAdmin.username]

create_new_case(fd, case_id, t, username) ==
    [case_id |-> case_id,
     channel |-> fd.channel,
     timestamps |-> [received |-> fd.received_time,
                     logged |-> strftime(t),
                     resolved |-> None],
     reporter |-> [name |-> fd.name,
                   role |-> fd.role,
                   agent_number |-> fd.agent_num,
                   contact |-> PyOr(fd.phone, fd.email)],
     region |-> fd.region,
     issue |-> [type |-> fd.issue_type,
                description |-> fd.description,
                attachments |-> fd.attachments],
     status |-> "Open",
     resolution |-> IF fd.resolution_notes # ""
                    THEN Some([notes |-> fd.resolution_notes,
                               action_taken |-> "Initial notes",
                               timestamp |-> strftime(t)])
                    ELSE None,
     handled_by |-> username]

\* generate_case_id: the next fresh id
generate_case_id == uuids + 1

\* the Submit Case button
SubmitCase(s, raw) ==
    /\ started[s] /\ logged_in[s]
    /\ View(s) = "new_case"
    /\ users_table' = init_db(users_table)
    /\ LET fd == form_data(raw)
       IN  IF form_error(fd) # ""
           THEN /\ notice' = form_error(fd)
                /\ UNCHANGED <<cases_table, uuids, current_case, new_case_submitted,
                               created_with_notes>>
           ELSE LET new_case == create_new_case(fd, generate_case_id, now,
                                                user[s][1].username)
                IN  /\ uuids < MaxCases
                    /\ uuids' = uuids + 1
                    /\ cases_table' = save_case(cases_table, new_case)
                    /\ new_case_submitted' = [new_case_submitted EXCEPT ![s] = TRUE]
                    /\ current_case' = [current_case EXCEPT ![s] = Some(new_case)]
                    /\ created_with_notes' =
                          IF raw.resolution_notes # ""
                          THEN created_with_notes \cup {generate_case_id}
                          ELSE created_with_notes
                    /\ notice' = ""
    /\ UNCHANGED <<now, started, logged_in, user, current_page, case_filter,
                   ss_users, editing_user, closed_or_escalated>>

-----------------------------------------------------------------------------
(* The case pages, used from two browser sessions (Spec).  Both sessions   *)
(* sign in as the default admin; the user-management pages, which neither   *)
(* read nor write the case table or a session's current case, are left to   *)
(* SpecUsers.                                                               *)

CaseLoginNames == {"admin"}

CaseLoginPasswords == {"", "admin123"}

CasePages == {"dashboard", "new_case"}

ResolveNotes == {"", "n1"}

\* a WhatsApp case with initial notes, an Email case without, an empty name
Forms ==
    {RawForm("WhatsApp", "N", "Agent", "A1", "P", "E", 0, "D", "n0", <<>>),
     RawForm("Email", "N", "Agent", "A1", "P", "E", 0, "D", "", <<>>),
     RawForm("Email", "", "Agent", "A1", "P", "E", 0, "D", "", <<>>)}

Next ==
    \E s \in Sessions :
        \/ StartSession(s)
        \/ \E un \in CaseLoginNames, pw \in CaseLoginPasswords : Login(s, un, pw)
        \/ \E page \in CasePages : Navigate(s, page)
        \/ Logout(s)
        \/ \E notes \in ResolveNotes, a \in ResolveActions : ResolveSubmit(s, notes, a)
        \/ \E f \in SeqToSet(FILTERS) : SetFilter(s, f)
        \/ \E i \in 1..MaxCases : ViewResolve(s, i)
        \/ \E i \in 1..MaxCases : DeleteCase(s, i)
        \/ \E raw \in Forms : SubmitCase(s, raw)

Spec == Init /\ [][Next]_vars

-----------------------------------------------------------------------------
(* Login and the user-management pages, used from one browser session       *)
(* (SpecUsers).                                                             *)

LoginNames == {"", "admin", "bob"}

LoginPasswords == {"", "admin123", "pw"}

\* the pages main() dispatches on; the sidebar offers a session only some
UserPages == {"dashboard", "new_case", "user_management", "edit_user"}

NewUsernames == {"", "bob"}

NewPasswords == {"", "pw"}

NewRegions == {"All"}

EditPasswords == {"pw"}

ConfirmPasswords == {"pw", "x"}

MaxUsers == 2     \* usernames in use: "admin" and "bob"

NextUsers ==
    \E s \in {"s1"} :
        \/ StartSession(s)
        \/ \E un \in LoginNames, pw \in LoginPasswords : Login(s, un, pw)
        \/ \E page \in UserPages : Navigate(s, page)
        \/ Logout(s)
        \/ \E un \in NewUsernames, pw \in NewPasswords, r \in SeqToSet(USER_ROLES),
              rg \in NewRegions : AddUser(s, un, pw, r, rg)
        \/ \E i \in 1..MaxUsers : EditClick(s, i)
        \/ \E i \in 1..MaxUsers : DeleteUserClick(s, i)
        \/ \E np \in EditPasswords, cp \in ConfirmPasswords, r \in SeqToSet(USER_ROLES),
              rg \in NewRegions, ac \in BOOLEAN : EditSave(s, np, cp, r, rg, ac)
        \/ EditCancel(s)

SpecUsers == Init /\ [][NextUsers]_vars

-----------------------------------------------------------------------------
(* The case form with every combination of its widgets, submitted by the    *)
(* default admin and by a user the admin added, next to the edit-user form   *)
(* (SpecForms).  Inside st.form the script sees the widgets only on Submit;  *)
(* a widget the previous run did not render is submitted with its default,   *)
(* the empty string, which is among the values enumerated here.              *)

FormLoginNames == {"admin", "bob"}

FormLoginPasswords == {"admin123", "pw"}

FormRoles == {"Agent", "Regional Manager"}

FormNotes == {"", "n0"}

\* every text widget filled, for each channel and role, with and without notes
FilledForms ==
    {RawForm(ch, "N", role, "A1", "P", "E", 0, "D", notes, <<>>) :
        ch \in SeqToSet(CHANNELS), role \in FormRoles, notes \in FormNotes}

\* the filled form of a channel and a role, without notes
Filled(ch, role) == RawForm(ch, "N", role, "A1", "P", "E", 0, "D", "", <<>>)

\* a filled form with one text widget left empty: a widget the submission
\* needs (the name, the description, the agent number of an Agent, the phone
\* of a WhatsApp or Voice Call case, the address of an Email case), or one
\* that the channel or the role does not use
OneEmptyForms ==
    {[Filled("WhatsApp", "Regional Manager") EXCEPT !.name = ""],
     [Filled("Email", "Agent") EXCEPT !.description = ""],
     [Filled("WhatsApp", "Agent") EXCEPT !.agent_num = ""],
     [Filled("WhatsApp", "Agent") EXCEPT !.phone = ""],
     [Filled("Voice Call", "Regional Manager") EXCEPT !.phone = ""],
     [Filled("Email", "Regional Manager") EXCEPT !.email = ""],
     [Filled("Voice Call", "Regional Manager") EXCEPT !.agent_num = ""],
     [Filled("Email", "Agent") EXCEPT !.phone = ""],
     [Filled("WhatsApp", "Agent") EXCEPT !.email = ""]}

AllForms == FilledForms \cup OneEmptyForms

NextForms ==
    \E s \in {"s1"} :
        \/ StartSession(s)
        \/ \E un \in FormLoginNames, pw \in FormLoginPasswords : Login(s, un, pw)
        \/ \E page \in UserPages : Navigate(s, page)
        \/ Logout(s)
        \/ AddUser(s, "bob", "pw", "Agent", "All")
        \/ \E i \in 1..MaxUsers : EditClick(s, i)
        \/ \E cp \in ConfirmPasswords : EditSave(s, "pw", cp, "Agent", "All", TRUE)
        \/ EditCancel(s)
        \/ \E raw \in AllForms : SubmitCase(s, raw)

SpecForms == Init /\ [][NextForms]_vars

-----------------------------------------------------------------------------
(* The case pages used from one browser session while time passes           *)
(* (SpecClock): the timestamps a case carries differ.                        *)

NextClock ==
    \/ Tick
    \/ \E s \in {"s1"} :
        \/ StartSession(s)
        \/ \E un \in CaseLoginNames, pw \in CaseLoginPasswords : Login(s, un, pw)
        \/ \E page \in CasePages : Navigate(s, page)
        \/ Logout(s)
        \/ \E notes \in ResolveNotes, a \in ResolveActions : ResolveSubmit(s, notes, a)
        \/ \E f \in SeqToSet(FILTERS) : SetFilter(s, f)
        \/ \E i \in 1..MaxCases : ViewResolve(s, i)
        \/ \E i \in 1..MaxCases : DeleteCase(s, i)
        \/ \E raw \in Forms : SubmitCase(s, raw)

SpecClock == Init /\ [][NextClock]_vars

-----------------------------------------------------------------------------
(* Cases created and resolved by two users, the default admin and a user    *)
(* the admin added, in one browser session while time passes (SpecResolve). *)

ResolveForms == {Filled("WhatsApp", "Agent"), Filled("Email", "Regional Manager")}

NextResolve ==
    \/ Tick
    \/ \E s \in {"s1"} :
        \/ StartSession(s)
        \/ \E un \in FormLoginNames, pw \in FormLoginPasswords : Login(s, un, pw)
        \/ \E page \in UserPages : Navigate(s, page)
        \/ Logout(s)
        \/ AddUser(s, "bob", "pw", "Agent", "All")
        \/ \E raw \in ResolveForms : SubmitCase(s, raw)
        \/ \E i \in 1..MaxCases : ViewResolve(s, i)
        \/ \E notes \in ResolveNotes, a \in ResolveActions : ResolveSubmit(s, notes, a)

SpecResolve == Init /\ [][NextResolve]_vars

-----------------------------------------------------------------------------
(* The store-level specification: any client calling save_case and           *)
(* delete_case on the case table, with cases of every status the readers     *)
(* handle (the legacy status "Escalated" included).                          *)

StoreStatuses == {"Open", "Closed", "Escalated"}

StoreCase(id, status) ==
    [case_id |-> id,
     channel |-> IF id % 2 = 1 THEN "WhatsApp" ELSE "Email",
     timestamps |-> [received |-> IF id % 2 = 1 THEN Some(0) ELSE None,
                     logged |-> 0,
                     resolved |-> None],
     reporter |-> [name |-> "N",
                   role |-> IF id % 2 = 1 THEN "Agent" ELSE "Regional Manager",
                   agent_number |-> IF id % 2 = 1 THEN Some("A1") ELSE None,
                   contact |-> Some("C")],
     region |-> "Lusaka",
     issue |-> [type |-> "Tokens", description |-> "D",
                attachments |-> IF id % 2 = 1 THEN <<"f.png">> ELSE <<>>],
     status |-> status,
     resolution |-> IF status = "Closed"
                    THEN Some([notes |-> "n1", action_taken |-> "Closed by agent",
                               timestamp |-> 0])
                    ELSE None,
     handled_by |-> "admin"]

StoreIds == 1..MaxStoreIds

StoreCases == {StoreCase(id, st) : id \in StoreIds, st \in StoreStatuses}

ApiSaveCase(c) ==
    /\ cases_table' = save_case(cases_table, c)
    /\ UNCHANGED <<users_table, now, uuids, session_vars, notice, history_vars>>

ApiDeleteCase(id) ==
    /\ cases_table' = delete_case(cases_table, id).rows
    /\ UNCHANGED <<users_table, now, uuids, session_vars, notice, history_vars>>

\* the status selectbox followed by filter_cases(): a read of the table
ApiFilterCases(s, f) ==
    /\ case_filter' = [case_filter EXCEPT ![s] = f]
    /\ UNCHANGED <<store_vars, now, uuids, started, logged_in, user, current_page,
                   current_case, new_case_submitted, ss_users, editing_user,
                   notice, history_vars>>

NextStore ==
    \/ \E c \in StoreCases : ApiSaveCase(c)
    \/ \E id \in StoreIds : ApiDeleteCase(id)
    \/ \E f \in SeqToSet(FILTERS) : ApiFilterCases("s1", f)

SpecStore == Init /\ [][NextStore]_vars

-----------------------------------------------------------------------------
(* Case details shown for stored cases of any content (SpecDetails): the   *)
(* table is written by any client, with timestamps present, absent or not   *)
(* parseable, and a session views the cases on the dashboard and in the      *)
(* resolution view.  10:00:00 is second 36000 of the day.                    *)

DetailChannels == {"WhatsApp", "Email"}

DetailReceived == {None, Some(36000), Some(36870), Some(36960), Some(-1)}

DetailLogged == {36900, -1}

DetailCase(id, channel, received, logged) ==
    [StoreCase(id, "Open") EXCEPT
        !.channel = channel,
        !.timestamps = [received |-> received, logged |-> logged, resolved |-> None]]

DetailCases ==
    {DetailCase(id, ch, r, l) :
        id \in 1..MaxCases, ch \in DetailChannels, r \in DetailReceived, l \in DetailLogged}

NextDetails ==
    \/ \E c \in DetailCases : ApiSaveCase(c)
    \/ \E s \in {"s1"} :
        \/ StartSession(s)
        \/ \E un \in CaseLoginNames, pw \in CaseLoginPasswords : Login(s, un, pw)
        \/ \E page \in CasePages : Navigate(s, page)
        \/ \E i \in 1..MaxCases : ViewResolve(s, i)

SpecDetails == Init /\ [][NextDetails]_vars

-----------------------------------------------------------------------------
(* Properties of the case table (SpecStore) *)

StoredCases == get_all_cases(cases_table)

StoredWithId(rows, id) ==
    LET all == get_all_cases(rows)
    IN  {i \in 1..Len(rows) : all[i].case_id = id}

StatusCount(rows, statuses) ==
    LET all == get_all_cases(rows)
    IN  Cardinality({i \in 1..Len(rows) : all[i].status \in statuses})

\* C6: upsert.  In every store reached by saves and deletes, no two records
\* share a case id; and saving any case c leaves exactly one record with c's
\* id, equal to c field for field, and saving c again changes nothing.
C6_Upsert ==
    /\ \A id \in StoreIds : Cardinality(StoredWithId(cases_table, id)) <= 1
    /\ \A c \in StoreCases :
          LET after == save_case(cases_table, c)
              all == get_all_cases(after)
          IN  /\ Cardinality(StoredWithId(after, c.case_id)) = 1
              /\ \A i \in StoredWithId(after, c.case_id) : all[i] = c
              /\ \A id \in StoreIds : Cardinality(StoredWithId(after, id)) <= 1
              /\ save_case(after, c) = after

\* C6 witness: a store in which a save replaces a record that differs from
\* the saved case, next to a record of another id.
C6_Witness ==
    /\ Len(cases_table) >= 2
    /\ \E c \in StoreCases :
          /\ StoredWithId(cases_table, c.case_id) # {}
          /\ c \notin SeqToSet(StoredCases)
          /\ c \in SeqToSet(get_all_cases(save_case(cases_table, c)))

\* C7: delete_case is idempotent.  For every store and every id, present or
\* not, a second delete changes nothing, neither delete reports an error, no
\* record with the id remains and the records of every other id are the same.
C7_DeleteIdempotent ==
    \A id \in StoreIds :
        LET once == delete_case(cases_table, id)
            twice == delete_case(once.rows, id)
        IN  /\ ~once.error /\ ~twice.error
            /\ twice.rows = once.rows
            /\ StoredWithId(once.rows, id) = {}
            /\ \A c \in SeqToSet(StoredCases) :
                  c.case_id # id => c \in SeqToSet(get_all_cases(once.rows))
            /\ SeqToSet(get_all_cases(once.rows)) \subseteq SeqToSet(StoredCases)

\* C7 witness: a store where one delete removes a record that is not the
\* first row, and another delete finds nothing to remove.
C7_Witness ==
    /\ \E id \in StoreIds :
          /\ StoredWithId(cases_table, id) # {}
          /\ 1 \notin StoredWithId(cases_table, id)
          /\ Len(delete_case(cases_table, id).rows) = Len(cases_table) - 1
    /\ \E id \in StoreIds :
          /\ StoredWithId(cases_table, id) = {}
          /\ delete_case(cases_table, id).rows = cases_table

FilterIsExactly(filter, statuses) ==
    LET shown == filter_cases(cases_table, filter)
    IN  /\ SeqToSet(shown) = {c \in SeqToSet(StoredCases) : c.status \in statuses}
        /\ Len(shown) = StatusCount(cases_table, statuses)

\* C8: filter "All" returns every stored case unchanged, "Open" exactly the
\* cases whose status is Open or Escalated, "Closed" exactly the cases whose
\* status is Closed; applying a filter leaves the case table as it was.
C8_FilterByStatus ==
    /\ [](/\ filter_cases(cases_table, "All") = StoredCases
          /\ FilterIsExactly("Open", {"Open", "Escalated"})
          /\ FilterIsExactly("Closed", {"Closed"}))
    /\ [][\A f \in SeqToSet(FILTERS) :
             ApiFilterCases("s1", f) => cases_table' = cases_table]_vars

\* C8 witness: the Open filter is selected over a store holding an Open, an
\* Escalated and a Closed case.
C8_Witness ==
    /\ case_filter["s1"] = "Open"
    /\ \A st \in StoreStatuses : StatusCount(cases_table, {st}) >= 1
    /\ Len(filter_cases(cases_table, "Open")) = Len(cases_table) - StatusCount(cases_table, {"Closed"})

RateIsClosedOverTotal ==
    LET total == Len(cases_table)
        closed == StatusCount(cases_table, {"Closed"})
        shown == dashboard(cases_table)
    IN  total > 0 =>
          /\ shown.metrics # None
          /\ LET r == shown.metrics[1].resolution_rate
                 diff == r * total - 1000 * closed
             IN  /\ 2 * diff <= total /\ -2 * diff <= total
                 /\ (closed = 3 /\ total = 4) => r = 750

\* C9 as claimed: the rate shown is closed / total * 100 to one decimal for a
\* non-empty collection, and 0 is shown for an empty one.
C9_RateZeroWhenEmpty ==
    /\ RateIsClosedOverTotal
    /\ cases_table = <<>> =>
          /\ dashboard(cases_table).metrics # None
          /\ dashboard(cases_table).metrics[1].resolution_rate = 0

\* C9 amended: the rate shown is closed / total * 100 to one decimal for a
\* non-empty collection (75.0 for 3 Closed and 1 Open); for an empty one the
\* dashboard shows "No cases logged yet" and no rate at all.
C9_RateOmittedWhenEmpty ==
    /\ RateIsClosedOverTotal
    /\ cases_table = <<>> =>
          /\ dashboard(cases_table).metrics = None
          /\ dashboard(cases_table).info = "No cases logged yet"

\* C9 witness: three Closed cases and one Open case, shown as 75.0
C9_Witness ==
    /\ Len(cases_table) = 4
    /\ StatusCount(cases_table, {"Closed"}) = 3
    /\ StatusCount(cases_table, {"Open"}) = 1
    /\ dashboard(cases_table).metrics[1].resolution_rate = 750

-----------------------------------------------------------------------------
(* Properties of the case lifecycle (Spec) *)

CaseIds == 1..MaxCases

\* the stored records with case id `id`
Stored(rows, id) == {c \in SeqToSet(get_all_cases(rows)) : c.case_id = id}

\* C1 as claimed: a stored case whose status is Closed keeps status Closed in
\* every step after which it is still stored.
C1_ClosedIsTerminal ==
    [][\A id \in CaseIds :
          \A c \in Stored(cases_table, id) :
              c.status = "Closed" =>
                  \A d \in Stored(cases_table', id) : d.status = "Closed"]_vars

\* C2 as claimed: a stored case has a resolution exactly when Close or
\* Escalate has been applied to it.
C2_ResolutionIffResolved ==
    \A c \in SeqToSet(StoredCases) :
        c.resolution # None <=> c.case_id \in closed_or_escalated

\* C2 amended: a stored case has a resolution exactly when Close or Escalate
\* has been applied to it or it was created with resolution notes.
C2_ResolutionIffResolvedOrNotes ==
    \A c \in SeqToSet(StoredCases) :
        c.resolution # None <=>
            c.case_id \in (closed_or_escalated \cup created_with_notes)

\* C2 witness: a stored case created without notes and then escalated, next
\* to a stored case created without notes and untouched.
C2_Witness ==
    /\ \E c \in SeqToSet(StoredCases) :
          /\ c.case_id \in closed_or_escalated \ created_with_notes
          /\ c.resolution # None
    /\ \E c \in SeqToSet(StoredCases) :
          /\ c.case_id \notin closed_or_escalated \cup created_with_notes
          /\ c.resolution = None

\* C3: every stored case has status Open or Closed; Escalated is never stored.
C3_StatusOpenOrClosed ==
    \A c \in SeqToSet(StoredCases) : c.status \in {"Open", "Closed"}

\* C3 witness: a stored case that was escalated, stored with status Open
C3_Witness ==
    \E c \in SeqToSet(StoredCases) :
        /\ c.resolution # None
        /\ c.resolution[1].action_taken = "Escalated to senior support"
        /\ c.status = "Open"

\* C4: Close or Escalate with empty notes reports "Please provide resolution
\* notes" and changes neither the case table nor the case being resolved.
C4_EmptyNotesMutateNothing ==
    [][\A s \in Sessions, a \in ResolveActions :
          ResolveSubmit(s, "", a) =>
              /\ notice' = MsgNotesRequired
              /\ cases_table' = cases_table
              /\ current_case' = current_case]_vars

\* C4 witness: the error is showing and a session still holds its case
C4_Witness ==
    /\ notice = MsgNotesRequired
    /\ \E s \in Sessions : current_case[s] # None /\ Stored(cases_table, current_case[s][1].case_id) # {}

\* C5: Close or Escalate with non-empty notes leaves exactly one record under
\* the case's id: the case the session held with status Closed and action
\* "Closed by agent" (close) or status Open and action "Escalated to senior
\* support" (escalate), the notes entered, and every other field as it was.
C5_ResolvePersists ==
    [][\A s \in Sessions, a \in ResolveActions, notes \in ResolveNotes \ {""} :
          ResolveSubmit(s, notes, a) =>
              LET old == current_case[s][1]
                  new == Stored(cases_table', old.case_id)
              IN  /\ Cardinality(new) = 1
                  /\ \A c \in new :
                        /\ c.status = IF a = "close" THEN "Closed" ELSE "Open"
                        /\ c.resolution # None
                        /\ c.resolution[1].notes = notes
                        /\ c.resolution[1].action_taken =
                              IF a = "close" THEN "Closed by agent"
                              ELSE "Escalated to senior support"
                        /\ [c EXCEPT !.status = old.status,
                                     !.resolution = old.resolution] = old]_vars

\* C5 witness: a close has just been stored
C5_Witness ==
    /\ notice = MsgClosed
    /\ \E c \in SeqToSet(StoredCases) :
          /\ c.status = "Closed"
          /\ c.resolution = Some([notes |-> "n1", action_taken |-> "Closed by agent",
                                  timestamp |-> 0])

-----------------------------------------------------------------------------
(* Properties of login (SpecUsers) *)

StoredUsers == get_all_users(users_table)

Matches(u, username, password) ==
    u.username = username /\ u.password = password /\ u.active

\* C10: a login attempt logs the session in only if the user table then holds
\* an active user with that username and password, and the session's user is
\* that stored user; with an empty field or no such user the session stays
\* logged out.
C10_LoginOnlyActiveMatch ==
    [][\A s \in Sessions, un \in LoginNames, pw \in LoginPasswords :
          Login(s, un, pw) =>
              LET hits == {u \in SeqToSet(StoredUsers) : Matches(u, un, pw)}
              IN  /\ logged_in'[s] => hits # {} /\ user'[s] \in {Some(u) : u \in hits}
                  /\ (un = "" \/ pw = "" \/ hits = {}) =>
                        ~logged_in'[s] /\ notice' \in {MsgLoginBad, MsgLoginEmpty}]_vars

\* C10 witness: bob is logged in while the stored admin is inactive
C10_Witness ==
    /\ logged_in["s1"] /\ notice = MsgLoginOk
    /\ user["s1"][1].username = "bob"
    /\ \E u \in SeqToSet(StoredUsers) : u.username = "admin" /\ ~u.active

-----------------------------------------------------------------------------
(* Properties of access control (SpecUsers) *)

UserPagesOfAdmin == {"user_management", "edit_user"}

\* a press of Add User, Edit, Delete, Save Changes or Cancel in session s
UserButton(s) ==
    \/ \E un \in NewUsernames, pw \in NewPasswords, r \in SeqToSet(USER_ROLES),
          rg \in NewRegions : AddUser(s, un, pw, r, rg)
    \/ \E i \in 1..MaxUsers : EditClick(s, i) \/ DeleteUserClick(s, i)
    \/ \E np \in EditPasswords, cp \in ConfirmPasswords, r \in SeqToSet(USER_ROLES),
          rg \in NewRegions, ac \in BOOLEAN : EditSave(s, np, cp, r, rg, ac)
    \/ EditCancel(s)

\* C11: the user list and the edit form are shown only to a session whose
\* user has role Admin; every step that changes the user table, and every
\* press of Add User, Edit, Delete, Save Changes or Cancel, is taken by a
\* session whose user has role Admin; a step of a session whose user is a
\* Manager or an Agent leaves the user table as it was.
C11_AdminOnlyUserOps ==
    /\ [](\A s \in Sessions :
            (logged_in[s] /\ View(s) \in UserPagesOfAdmin) => user[s][1].role = "Admin")
    /\ [][/\ (users_table' # users_table) =>
                (\E s \in Sessions :
                    /\ logged_in[s] /\ user[s][1].role = "Admin"
                    /\ View(s) \in UserPagesOfAdmin)
          /\ \A s \in Sessions : UserButton(s) => (user[s][1].role = "Admin")
          /\ (\A s \in Sessions : logged_in[s] => user[s][1].role # "Admin")
                => (users_table' = users_table)]_vars

\* C11 witness: an Agent is logged in, in the session in which an Admin added
\* that Agent and opened the edit form of a user, and is on the case form.
C11_Witness ==
    /\ logged_in["s1"] /\ user["s1"][1].role = "Agent"
    /\ editing_user["s1"] # None
    /\ current_page["s1"] = Some("new_case")
    /\ Len(users_table) = 2

-----------------------------------------------------------------------------
(* Properties of the case form (SpecForms) *)

\* the submissions the form must reject: a required text empty, role Agent
\* without an agent number, WhatsApp or Voice Call without a phone, Email
\* without an email address
MustReject(raw) ==
    \/ raw.name = "" \/ raw.role = "" \/ raw.region = "" \/ raw.issue_type = ""
    \/ raw.description = ""
    \/ raw.role = "Agent" /\ raw.agent_num = ""
    \/ raw.channel \in {"WhatsApp", "Voice Call"} /\ raw.phone = ""
    \/ raw.channel = "Email" /\ raw.email = ""

FormErrors == {MsgRequired, MsgAgentNumber, MsgPhone, MsgEmail}

\* C12: a submission that passes validation stores exactly one new case, held
\* by the session as its current case, with status Open and handled_by the
\* username of the submitting session; its resolution is None when the notes
\* were left empty, and otherwise carries the notes entered with action
\* "Initial notes".
C12_CreatedCaseFields ==
    [][\A s \in Sessions, raw \in AllForms :
          (SubmitCase(s, raw) /\ ~MustReject(raw)) =>
              LET new == Stored(cases_table', uuids')
              IN  /\ uuids' = uuids + 1
                  /\ Stored(cases_table, uuids') = {}
                  /\ Cardinality(new) = 1
                  /\ \A c \in new :
                        /\ current_case'[s] = Some(c)
                        /\ c.status = "Open"
                        /\ c.handled_by = user[s][1].username
                        /\ (raw.resolution_notes = "") => (c.resolution = None)
                        /\ (raw.resolution_notes # "") =>
                              /\ c.resolution # None
                              /\ c.resolution[1].notes = raw.resolution_notes
                              /\ c.resolution[1].action_taken = "Initial notes"]_vars

\* C12 witness: a case submitted by bob with notes is stored next to a case
\* submitted by the admin without notes.
C12_Witness ==
    /\ \E c \in SeqToSet(StoredCases) :
          /\ c.handled_by = "bob" /\ c.status = "Open"
          /\ c.resolution # None /\ c.resolution[1].action_taken = "Initial notes"
    /\ \E c \in SeqToSet(StoredCases) :
          c.handled_by = "admin" /\ c.status = "Open" /\ c.resolution = None

\* C13: a case submission that must be rejected reports a validation error,
\* generates no case id and leaves the case table and the session's current
\* case as they were; an edit-user submission whose password and confirmation
\* differ reports the mismatch and leaves the user table as it was.
C13_ValidationErrorsMutateNothing ==
    [][/\ \A s \in Sessions, raw \in AllForms :
             (SubmitCase(s, raw) /\ MustReject(raw)) =>
                 /\ notice' \in FormErrors
                 /\ cases_table' = cases_table
                 /\ uuids' = uuids
                 /\ current_case' = current_case
                 /\ users_table' = users_table
       /\ \A s \in Sessions, np \in EditPasswords, cp \in ConfirmPasswords,
             r \in SeqToSet(USER_ROLES), ac \in BOOLEAN :
             (EditSave(s, np, cp, r, "All", ac) /\ np # cp) =>
                 /\ notice' = MsgPasswordMismatch
                 /\ users_table' = users_table
                 /\ cases_table' = cases_table]_vars

\* C13 witness: the missing e-mail address is reported for a submission, in
\* a session that has stored a case, added bob and opened the edit form
C13_Witness ==
    /\ notice = MsgEmail
    /\ Len(cases_table) = 1
    /\ Len(users_table) = 2
    /\ editing_user["s1"] # None

\* C16: every stored case has timestamps.received exactly when its channel is
\* WhatsApp, a non-empty agent number when the reporter's role is Agent and
\* None otherwise, and a non-empty contact; the contact stored by a submission
\* is the phone entered for WhatsApp and Voice Call and the e-mail address
\* entered for Email.
C16_ChannelAndRoleRules ==
    /\ [](\A c \in SeqToSet(StoredCases) :
            /\ (c.timestamps.received # None) <=> (c.channel = "WhatsApp")
            /\ (c.reporter.role = "Agent") => Truthy(c.reporter.agent_number)
            /\ (c.reporter.role # "Agent") => (c.reporter.agent_number = None)
            /\ Truthy(c.reporter.contact))
    /\ [][\A s \in Sessions, raw \in AllForms :
             (SubmitCase(s, raw) /\ uuids' # uuids) =>
                 \A c \in Stored(cases_table', uuids') :
                     c.reporter.contact =
                         IF raw.channel = "Email" THEN Some(raw.email) ELSE Some(raw.phone)]_vars

\* C16 witness: an Email case of a Regional Manager, whose form had the phone
\* filled in too, next to a WhatsApp case of an Agent
C16_Witness ==
    /\ \E c \in SeqToSet(StoredCases) :
          /\ c.channel = "Email" /\ c.reporter.role = "Regional Manager"
          /\ c.reporter.contact = Some("E") /\ c.reporter.agent_number = None
          /\ c.timestamps.received = None
    /\ \E c \in SeqToSet(StoredCases) :
          /\ c.channel = "WhatsApp" /\ c.reporter.role = "Agent"
          /\ c.reporter.contact = Some("P") /\ c.reporter.agent_number = Some("A1")
          /\ c.timestamps.received # None

-----------------------------------------------------------------------------
(* Properties of user deletion and of the cached user list (SpecUsers) *)

Usernames == {"admin", "bob"}

UserStored(rows, username) ==
    \E u \in SeqToSet(get_all_users(rows)) : u.username = username

\* C14 as claimed: a press of Delete beside user u leaves the user table
\* without u, and a username absent from the user table comes back only by a
\* press of Add User with that username.
C14_DeletionIsPhysical ==
    [][/\ \A s \in Sessions, i \in 1..MaxUsers :
             DeleteUserClick(s, i) => ~UserStored(users_table', ss_users[s][i].username)
       /\ \A name \in Usernames :
             (~UserStored(users_table, name) /\ UserStored(users_table', name)) =>
                 \E s \in Sessions, pw \in NewPasswords, r \in SeqToSet(USER_ROLES),
                    rg \in NewRegions : AddUser(s, name, pw, r, rg)]_vars

\* what the user list shows of a user
ListedUser(u) ==
    [username |-> u.username, role |-> u.role, region |-> u.region, active |-> u.active]

\* C20 as claimed: whenever a session is on the User Management page, the
\* users of its cached list are exactly the users of the user table, with the
\* same role, region and active flag.
C20_CachedListIsStore ==
    \A s \in Sessions :
        (logged_in[s] /\ View(s) = "user_management") =>
            {ListedUser(u) : u \in SeqToSet(ss_users[s])}
                = {ListedUser(u) : u \in SeqToSet(StoredUsers)}

-----------------------------------------------------------------------------
(* Properties of the fields resolve_case leaves alone (SpecResolve) *)

\* the fields of a case other than status and resolution
Frame(c) ==
    [case_id |-> c.case_id, channel |-> c.channel, timestamps |-> c.timestamps,
     reporter |-> c.reporter, region |-> c.region, issue |-> c.issue,
     handled_by |-> c.handled_by]

\* the records of case `id`: the stored one and the ones sessions hold
Copies(id) ==
    Stored(cases_table, id)
        \cup {current_case[s][1] : s \in {t \in Sessions : current_case[t] # None
                                                         /\ current_case[t][1].case_id = id}}

\* C15: every record of a case, stored or held by a session, has
\* timestamps.resolved None and agrees with every record of that case in the
\* next state on case_id, channel, timestamps, reporter, region, issue and
\* handled_by; the first record of a case appears in the step that generates
\* its id.  So a case keeps these fields as created through every Close and
\* Escalate, by either user.
C15_ResolveKeepsFrame ==
    /\ [](\A id \in CaseIds : \A c \in Copies(id) : c.timestamps.resolved = None)
    /\ [][\A id \in CaseIds :
             /\ \A c \in Copies(id) : \A d \in Copies(id)' : Frame(c) = Frame(d)
             /\ (Copies(id) = {} /\ Copies(id)' # {}) => (uuids < id /\ uuids' = id)]_vars

\* C15 witness: bob has just escalated, at second 1, a WhatsApp case the
\* admin logged at second 0
C15_Witness ==
    /\ notice = MsgEscalated
    /\ user["s1"][1].username = "bob"
    /\ \E c \in SeqToSet(StoredCases) :
          /\ c.handled_by = "admin"
          /\ c.timestamps = [received |-> Some(0), logged |-> 0, resolved |-> None]
          /\ c.status = "Open"
          /\ c.resolution # None /\ c.resolution[1].timestamp = 1

-----------------------------------------------------------------------------
(* Properties of the WhatsApp response time (SpecDetails) *)

\* the cases a session has on its screen: the list of the dashboard, or the
\* case of the resolution view
OnScreen(s) ==
    IF ~(started[s] /\ logged_in[s]) THEN {}
    ELSE IF View(s) = "resolve" THEN {current_case[s][1]}
    ELSE IF View(s) = "dashboard" THEN SeqToSet(listed(s))
    ELSE {}

\* C17: for every case on a screen the card is shown without error; the
\* response time is shown exactly when the channel is WhatsApp and received
\* is present and both received and logged are timestamps, and then it is
\* (logged - received) / 60 to the nearest tenth of a minute (15.0 for
\* received 10:00:00 and logged 10:15:00); and the dashboard shows its
\* metrics whenever a case is stored.
C17_ResponseTime ==
    /\ \A s \in Sessions : \A c \in OnScreen(s) :
          LET shown == display_case_details(c)
              measurable == /\ c.channel = "WhatsApp"
                            /\ c.timestamps.received # None
                            /\ c.timestamps.received[1] >= 0
                            /\ c.timestamps.logged >= 0
          IN  /\ shown.card # None /\ shown.error = ""
              /\ measurable <=> (shown.metric # None)
              /\ measurable =>
                    LET seconds == c.timestamps.logged - c.timestamps.received[1]
                        tenths == shown.metric[1]
                    IN  /\ 2 * (6 * tenths - seconds) <= 6
                        /\ 2 * (seconds - 6 * tenths) <= 6
                        /\ (c.timestamps.received[1] = 36000
                                /\ c.timestamps.logged = 36900) => (tenths = 150)
    /\ (cases_table # <<>>) => (dashboard(cases_table).metrics # None)

\* C17 witness: the dashboard lists a WhatsApp case received at 10:00:00 and
\* logged at 10:15:00 next to a WhatsApp case whose received is no timestamp
C17_Witness ==
    /\ logged_in["s1"] /\ View("s1") = "dashboard"
    /\ \E c \in OnScreen("s1") :
          /\ c.timestamps.received = Some(36000) /\ c.timestamps.logged = 36900
          /\ display_case_details(c).metric = Some(150)
    /\ \E c \in OnScreen("s1") :
          /\ c.channel = "WhatsApp" /\ c.timestamps.received = Some(-1)
          /\ display_case_details(c).metric = None

-----------------------------------------------------------------------------
(* Properties of two sessions resolving the same case (Spec) *)

\* session s holds case `id` as its current case
Holds(s, id) == current_case[s] # None /\ current_case[s][1].case_id = id

\* session s holds a case that another session holds too
SharedCase(s) ==
    /\ current_case[s] # None
    /\ \E t \in Sessions \ {s} : Holds(t, current_case[s][1].case_id)

C19_ResolveOfDeletedCase ==
    [][\A s \in Sessions, a \in ResolveActions, notes \in ResolveNotes \ {""} :
          (/\ current_case[s] # None
           /\ Stored(cases_table, current_case[s][1].case_id) = {}
           /\ ResolveSubmit(s, notes, a)) =>
              /\ cases_table' = cases_table
              /\ Stored(cases_table', current_case[s][1].case_id) = {}
              /\ current_case'[s] = None]_vars

-----------------------------------------------------------------------------
(* The confirmation after a submission.  new_case_form shows "Case <id>     *)
(* created successfully!" with the Go to Dashboard and Create Another Case  *)
(* buttons when it runs with new_case_submitted set and current_case        *)
(* truthy; main() calls new_case_form only when current_case is falsy.      *)

\* the post-submission message of new_case_form is on the session's screen
post_submission(s) ==
    /\ started[s] /\ logged_in[s]
    /\ View(s) = "new_case"
    /\ new_case_submitted[s]
    /\ current_case[s] # None

\* C21 as claimed: after every successful case submission the session's next
\* screen is the confirmation state of the new-case page (new_case_submitted
\* true and current_case set) and not the resolution view of the new case.
C21_ConfirmationBeforeResolve ==
    [][\A s \in Sessions, raw \in Forms :
          (SubmitCase(s, raw) /\ uuids' # uuids) =>
              /\ post_submission(s)'
              /\ View(s)' # "resolve"]_vars

====
